---- MODULE Spec2Model ----
(***************************************************************************)
(* Model of the druid todo tutorial: the application state (data.rs), the  *)
(* command delegate (delegate.rs), the per-item controller                 *)
(* (controllers.rs), the widget tree's handlers (view.rs) and the file     *)
(* todos.json, driven by the toolkit's event / command / update cycle.     *)
(***************************************************************************)
EXTENDS Integers, Sequences, FiniteSets, TLC

\* ---------------------------------------------------------------- bounds
NumIds == 2        \* size of the universe of Uuid values
MaxTodos == 2      \* add is not offered beyond this list length
MaxInit == 1       \* longest item list found in todos.json at startup

Ids == 1..NumIds
Texts == {"", "a"}

\* ------------------------------------------------------------ data model
\* TodoItem { id: Uuid, done: bool, text: String }
TodoItem == [id : Ids, done : BOOLEAN, text : Texts]

\* Selectors of delegate.rs and the commands built from them.  A command of
\* any other selector is "other".
SAVE == [sel |-> "todo.save", id |-> 0]
DELETE(id) == [sel |-> "todo.delete", id |-> id]
OtherCmd == [sel |-> "other", id |-> 0]

\* ------------------------------------------------ JSON text of todos.json
\* The file is a sequence of tokens <<kind, key, value>>: punctuation, or a
\* member "key": value of an object, the value kept as the text written in
\* the file.  The kind keeps a member apart from punctuation whatever its key.
LB == <<"[", "", "">>
RB == <<"]", "", "">>
LC == <<"{", "", "">>
RC == <<"}", "", "">>
COMMA == <<",", "", "">>
Member(k, v) == <<"member", k, v>>
IsMember(tok) == tok[1] = "member"
KeyOf(tok) == tok[2]
ValueOf(tok) == tok[3]

\* What is left of a member when the file ends inside it.
Torn == <<"torn", "", "">>

\* Uuid -> hyphenated text and back (Uuid's Serialize / Deserialize).
UuidToString(id) == ToString(id)
IsUuidString(s) == \E i \in Ids : UuidToString(i) = s
ParseUuid(s) == CHOOSE i \in Ids : UuidToString(i) = s

\* A text for bool that is not JSON's.
BoolToStringCapital(b) == IF b THEN "True" ELSE "False"

\* bool -> true / false and back.
BoolToString(b) == IF b THEN "true" ELSE "false"
IsBoolString(s) == s \in {"true", "false"}
ParseBool(s) == s = "true"

\* #[derive(Serialize)] for TodoItem: the fields in declaration order.
SerializeItem(item) ==
    << LC, Member("id", UuidToString(item.id)), COMMA,
       Member("done", BoolToString(item.done)), COMMA,
       Member("text", item.text), RC >>

RECURSIVE SerializeItems(_)
SerializeItems(items) ==
    IF items = <<>> THEN <<>>
    ELSE IF Len(items) = 1 THEN SerializeItem(Head(items))
    ELSE SerializeItem(Head(items)) \o <<COMMA>> \o SerializeItems(Tail(items))

\* serde_json::to_string_pretty(&todo_vec)
Serialize(items) == <<LB>> \o SerializeItems(items) \o <<RB>>

ParseErr == [ok |-> FALSE, val |-> <<>>, rest |-> <<>>]

\* The values of key k among the members collected for one object.
ValuesOf(members, k) ==
    SelectSeq(members, LAMBDA m : KeyOf(m) = k)

\* #[derive(Deserialize)] for TodoItem, at the closing brace: every field
\* exactly once (a duplicate or a missing field is an error), each value of
\* its type; members of unknown keys are ignored.
BuildItem(members) ==
    LET ids == ValuesOf(members, "id")
        dones == ValuesOf(members, "done")
        texts == ValuesOf(members, "text")
    IN  IF /\ Len(ids) = 1 /\ Len(dones) = 1 /\ Len(texts) = 1
           /\ IsUuidString(ValueOf(ids[1]))
           /\ IsBoolString(ValueOf(dones[1]))
        THEN [ok |-> TRUE,
              val |-> << [id |-> ParseUuid(ValueOf(ids[1])),
                          done |-> ParseBool(ValueOf(dones[1])),
                          text |-> ValueOf(texts[1])] >>,
              rest |-> <<>>]
        ELSE ParseErr

IsPunct(tok) == tok \in {LB, RB, LC, RC, COMMA}

\* One object, from the token after its opening brace: members separated by
\* commas up to the closing brace.  st is "first" (member or brace expected),
\* "member" (member expected) or "sep" (comma or brace expected).
RECURSIVE ParseObject(_, _, _)
ParseObject(toks, members, st) ==
    IF toks = <<>> THEN ParseErr
    ELSE LET h == Head(toks)
             t == Tail(toks)
         IN  IF h = RC /\ st \in {"first", "sep"}
             THEN LET r == BuildItem(members)
                  IN  IF r.ok THEN [r EXCEPT !.rest = t] ELSE ParseErr
             ELSE IF IsMember(h) /\ st \in {"first", "member"}
             THEN ParseObject(t, Append(members, h), "sep")
             ELSE IF h = COMMA /\ st = "sep"
             THEN ParseObject(t, members, "member")
             ELSE ParseErr

\* The elements of the array, from the token after its opening bracket; the
\* closing bracket must be the last token of the file.
RECURSIVE ParseArray(_, _, _)
ParseArray(toks, acc, st) ==
    IF toks = <<>> THEN ParseErr
    ELSE LET h == Head(toks)
             t == Tail(toks)
         IN  IF h = RB /\ st \in {"first", "sep"}
             THEN IF t = <<>> THEN [ok |-> TRUE, val |-> acc, rest |-> <<>>]
                  ELSE ParseErr
             ELSE IF h = LC /\ st \in {"first", "elem"}
             THEN LET r == ParseObject(t, <<>>, "first")
                  IN  IF r.ok THEN ParseArray(r.rest, acc \o r.val, "sep")
                      ELSE ParseErr
             ELSE IF h = COMMA /\ st = "sep"
             THEN ParseArray(t, acc, "elem")
             ELSE ParseErr

\* serde_json::from_reader::<Vec<TodoItem>>
Deserialize(bytes) ==
    IF bytes # <<>> /\ Head(bytes) = LB
    THEN ParseArray(Tail(bytes), <<>>, "first")
    ELSE ParseErr

\* ---------------------------------------------------------- the file system
\* todos.json: whether it exists, and its content.
NoFile == [exists |-> FALSE, bytes |-> <<>>]
FileOf(bytes) == [exists |-> TRUE, bytes |-> bytes]

\* The ways std::fs::write of bytes can end: done; the file could not be
\* created or opened (it is left as it was); it was truncated, `written`
\* tokens of the content (fewer than all) reached it, with a piece of the
\* next one when `torn`, and the write then failed.
IoOk == [res |-> "ok", written |-> 0, torn |-> FALSE]
IoOpenFailed == [res |-> "open_failed", written |-> 0, torn |-> FALSE]
WriteOutcomes(bytes) ==
    {IoOk, IoOpenFailed} \cup
    { io \in [res : {"write_failed"}, written : 0..(Len(bytes) - 1),
              torn : BOOLEAN] :
        io.torn => IsMember(bytes[io.written + 1]) }

\* What a write of bytes leaves in the file when it fails after n whole
\* tokens (fewer than all of them): those tokens, and a piece of the next
\* one if it is longer than one byte and the write stopped inside it.
ShortWrite(bytes, n, torn) ==
    IF bytes = <<>> THEN <<>>
    ELSE LET k == IF n < Len(bytes) THEN n ELSE Len(bytes) - 1
         IN  SubSeq(bytes, 1, k) \o
               (IF torn /\ IsMember(bytes[k + 1]) THEN <<Torn>> ELSE <<>>)

\* A write that appends to what the file held.
FsWriteAppend(f, bytes, io) ==
    IF io.res = "ok" THEN FileOf(f.bytes \o bytes)
    ELSE IF io.res = "open_failed" THEN f
    ELSE FileOf(ShortWrite(bytes, io.written, io.torn))

\* std::fs::write("todos.json", serialized): the whole file is replaced.
FsWrite(f, bytes, io) ==
    IF io.res = "ok" THEN FileOf(bytes)
    ELSE IF io.res = "open_failed" THEN f
    ELSE FileOf(ShortWrite(bytes, io.written, io.torn))

\* A save whose error is dropped instead of returned.
SaveToJsonIgnoreErr(ts, f, io) ==
    [file |-> FsWrite(f, Serialize(ts), io), res |-> "Ok"]

\* AppState::save_to_json: the new file and the Result returned.
SaveToJson(ts, f, io) ==
    [file |-> FsWrite(f, Serialize(ts), io),
     res |-> IF io.res = "ok" THEN "Ok" ELSE "Err"]

\* A load that seeds a sample item when there is nothing to read.
LoadFromJsonSeeded(f) ==
    LET seed == << [id |-> 1, done |-> FALSE, text |-> "a"] >>
    IN  IF f.exists
        THEN LET r == Deserialize(f.bytes)
             IN  [todos |-> IF r.ok THEN r.val ELSE seed, new_todo |-> ""]
        ELSE [todos |-> seed, new_todo |-> ""]

\* AppState::load_from_json: a file that cannot be opened, or whose content
\* does not deserialize, gives the empty list.
LoadFromJson(f) ==
    IF f.exists
    THEN LET r == Deserialize(f.bytes)
         IN  [todos |-> IF r.ok THEN r.val ELSE <<>>, new_todo |-> ""]
    ELSE [todos |-> <<>>, new_todo |-> ""]

\* ----------------------------------------------------- AppState operations
\* TodoItem::new with the Uuid drawn by Uuid::new_v4.
TodoItemNew(id, text) == [id |-> id, done |-> FALSE, text |-> text]

\* A push at the back of the list.
PushBack(ts, item) == ts \o <<item>>

\* Vector::push_front
PushFront(ts, item) == <<item>> \o ts

\* retain with the predicate inverted: the completed items are kept.
RECURSIVE RetainDone(_)
RetainDone(ts) ==
    IF ts = <<>> THEN <<>>
    ELSE IF Head(ts).done THEN <<Head(ts)>> \o RetainDone(Tail(ts))
    ELSE RetainDone(Tail(ts))

\* Vector::retain(|item| !item.done)
RECURSIVE RetainNotDone(_)
RetainNotDone(ts) ==
    IF ts = <<>> THEN <<>>
    ELSE IF ~Head(ts).done THEN <<Head(ts)>> \o RetainNotDone(Tail(ts))
    ELSE RetainNotDone(Tail(ts))

\* retain with the comparison inverted: only the items of the id are kept.
RECURSIVE RetainSameId(_, _)
RetainSameId(ts, id) ==
    IF ts = <<>> THEN <<>>
    ELSE IF Head(ts).id = id THEN <<Head(ts)>> \o RetainSameId(Tail(ts), id)
    ELSE RetainSameId(Tail(ts), id)

\* Vector::retain(|item| &item.id != id)
RECURSIVE RetainOtherIds(_, _)
RetainOtherIds(ts, id) ==
    IF ts = <<>> THEN <<>>
    ELSE IF Head(ts).id # id THEN <<Head(ts)>> \o RetainOtherIds(Tail(ts), id)
    ELSE RetainOtherIds(Tail(ts), id)

\* An add that leaves the staging text as typed.
AddTodoKeepText(ts, text, id, f, io) ==
    LET ts2 == PushFront(ts, TodoItemNew(id, text))
    IN  [todos |-> ts2, new_todo |-> text, save |-> SaveToJson(ts2, f, io)]

\* AppState::add_todo, up to the unwrap of the save's Result.
AddTodo(ts, text, id, f, io) ==
    LET ts2 == PushFront(ts, TodoItemNew(id, text))
    IN  [todos |-> ts2, new_todo |-> "", save |-> SaveToJson(ts2, f, io)]

\* AppState::clear_completed
ClearCompleted(ts, f, io) ==
    LET ts2 == RetainNotDone(ts)
    IN  [todos |-> ts2, save |-> SaveToJson(ts2, f, io)]

\* AppState::delete_todo
DeleteTodo(ts, id, f, io) ==
    LET ts2 == RetainOtherIds(ts, id)
    IN  [todos |-> ts2, save |-> SaveToJson(ts2, f, io)]

\* A toggle that rebuilds the item and loses its text.
ToggleDoneReset(ts, i) ==
    [ts EXCEPT ![i] = [id |-> ts[i].id, done |-> ~ts[i].done, text |-> ""]]

\* Checkbox bound to TodoItem::done by a lens: a click flips the flag of the
\* item at index i.
ToggleDone(ts, i) == [ts EXCEPT ![i].done = ~ts[i].done]

\* The ways the println! of the delegate can end: printed, or stdout could
\* not be written and println! panics.
PrintOutcomes == {"ok", "failed"}

\* A delegate that saves on every command it does not know.
DelegateCommandSaveAll(cmd, ts, f, io, out) ==
    IF cmd.sel = DELETE(0).sel
    THEN LET d == DeleteTodo(ts, cmd.id, f, io)
         IN  [todos |-> d.todos, file |-> d.save.file, res |-> d.save.res,
              handled |-> IF d.save.res = "Ok" THEN "Yes" ELSE "none"]
    ELSE LET sv == SaveToJson(ts, f, IF cmd.sel = SAVE.sel THEN io ELSE IoOk)
         IN  IF cmd.sel # SAVE.sel /\ out # "ok"
             THEN [todos |-> ts, file |-> f, res |-> "PrintErr",
                   handled |-> "none"]
             ELSE [todos |-> ts, file |-> sv.file, res |-> sv.res,
                   handled |-> IF sv.res # "Ok" THEN "none"
                               ELSE IF cmd.sel = SAVE.sel THEN "Yes" ELSE "No"]

\* Delegate::command: the data and the file after the command, the value
\* returned ("none" when it panics) and how it went: the Result of the save
\* it ran, "none" when it ran none, "PrintErr" when the println! of a
\* command it does not know failed.
DelegateCommand(cmd, ts, f, io, out) ==
    IF cmd.sel = SAVE.sel
    THEN LET sv == SaveToJson(ts, f, io)
         IN  [todos |-> ts, file |-> sv.file, res |-> sv.res,
              handled |-> IF sv.res = "Ok" THEN "Yes" ELSE "none"]
    ELSE IF cmd.sel = DELETE(0).sel
    THEN LET d == DeleteTodo(ts, cmd.id, f, io)
         IN  [todos |-> d.todos, file |-> d.save.file, res |-> d.save.res,
              handled |-> IF d.save.res = "Ok" THEN "Yes" ELSE "none"]
    ELSE IF out = "ok"
    THEN [todos |-> ts, file |-> f, res |-> "none", handled |-> "No"]
    ELSE [todos |-> ts, file |-> f, res |-> "PrintErr", handled |-> "none"]

\* A controller that watches the text instead of the flag.
ControllerUpdateText(old_item, item) ==
    IF old_item.text # item.text THEN <<SAVE>> ELSE <<>>

\* TodoItemController::update for one row: the commands it submits.
ControllerUpdate(old_item, item) ==
    IF old_item.done # item.done THEN <<SAVE>> ELSE <<>>

\* A list that does not pass updates on to its rows.
ListUpdateNone(olds, ts) == <<>>

\* List::update: each existing row is updated with the item now at its
\* index, against the item the row last saw; rows are added or dropped after.
RECURSIVE ListUpdate(_, _)
ListUpdate(olds, ts) ==
    IF olds = <<>> \/ ts = <<>> THEN <<>>
    ELSE ControllerUpdate(Head(olds), Head(ts)) \o ListUpdate(Tail(olds), Tail(ts))

\* ------------------------------------------------------------------ state
VARIABLES
    new_todo,   \* AppState::new_todo, the staging text
    todos,      \* AppState::todos
    file,       \* todos.json
    queue,      \* the application's command queue
    old_data,   \* the item each row of the list last saw (its old_data)
    phase,      \* "idle": waiting for an event; "commands": an event handler
                \* has returned and the queued commands are being handled;
                \* "panicked": an unwrap met an Err and the process is gone
    handled,    \* what Delegate::command returned last ("none" before any)
    lastOp,     \* the step taken last
    lastEvent,  \* the event delivered last
    clean,      \* the queue was empty when that event was delivered
    writes      \* completed writes of todos.json since that event

vars == << new_todo, todos, file, queue, old_data, phase, handled,
           lastOp, lastEvent, clean, writes >>

\* The item lists a todos.json found at startup may hold.
InitLists ==
    UNION { [1..n -> TodoItem] : n \in 0..MaxInit }

\* Contents of todos.json that are not what this program writes.
OddFiles ==
    { <<>>,
      <<LB>>,
      <<LC, RC>>,
      <<LB, LC, Member("id", "1"), COMMA, Member("done", "false"), COMMA,
        Member("text", "a"), RC>>,
      <<LB, LC, Member("id", "1"), COMMA, Member("done", "false"), COMMA,
        Member("text", "a"), RC, RB, RB>>,
      <<LB, LC, Member("id", "1"), COMMA, Member("done", "false"), COMMA,
        Member("text", "a"), RC, COMMA, RB>>,
      <<LB, LC, Member("id", "1"), COMMA, Member("text", "a"), RC, RB>>,
      <<LB, LC, Member("id", "1"), COMMA, Member("done", "true"), COMMA,
        Member("done", "false"), COMMA, Member("text", "a"), RC, RB>>,
      <<LB, LC, Member("id", "1"), COMMA, Member("done", "yes"), COMMA,
        Member("text", "a"), RC, RB>>,
      <<LB, LC, Member("id", "zz"), COMMA, Member("done", "true"), COMMA,
        Member("text", "a"), RC, RB>>,
      <<LB, LC, Member("text", "a"), COMMA, Member("done", "true"), COMMA,
        Member("id", "2"), RC, RB>>,
      <<LB, LC, Member("id", "2"), COMMA, Member("done", "true"), COMMA,
        Member("text", ""), COMMA, Member("torn", ""), RC, RB>>,
      <<LB, LC, Member("id", "1"), COMMA, Torn>> }

\* A file, edited by hand or merged from two, with two items of one id.
TwinFile ==
    Serialize(<< [id |-> 1, done |-> FALSE, text |-> "a"],
                 [id |-> 1, done |-> TRUE, text |-> ""] >>)

InitFiles ==
    {NoFile, FileOf(TwinFile)}
      \cup { FileOf(Serialize(l)) : l \in InitLists }
      \cup { FileOf(b) : b \in OddFiles }

\* main: the state loaded from todos.json is handed to the launcher, which
\* builds one row per item.
Init ==
    /\ file \in InitFiles
    /\ todos = LoadFromJson(file).todos
    /\ new_todo = LoadFromJson(file).new_todo
    /\ queue = <<>>
    /\ old_data = todos
    /\ phase = "idle"
    /\ handled = "none"
    /\ lastOp = "load"
    /\ lastEvent = "launch"
    /\ clean = TRUE
    /\ writes = 0

\* ---------------------------------------------------------------- helpers
IdsOf(ts) == { ts[i].id : i \in 1..Len(ts) }

\* Uuids the list, the queue or the file still mentions.
LiveIds ==
    IdsOf(todos) \cup { queue[i].id : i \in 1..Len(queue) }
                 \cup { id \in Ids : \E i \in 1..Len(file.bytes) :
                            file.bytes[i] = Member("id", UuidToString(id)) }

\* A constant Uuid in place of a generated one.
NilV4(live) == {1}

\* Uuid::new_v4: a Uuid met nowhere else.
NewV4(live) == Ids \ live

\* What an event delivered to the window records.
Delivered(name) ==
    /\ lastEvent' = name
    /\ clean' = (queue = <<>>)
    /\ handled' = "none"

\* Result::unwrap on an Err, or a println! that fails: the process panics; its
\* memory is gone and todos.json stays as it was left.
Panic(f) ==
    /\ phase' = "panicked"
    /\ file' = f
    /\ new_todo' = ""
    /\ todos' = <<>>
    /\ queue' = <<>>
    /\ old_data' = <<>>

\* ----------------------------------------------------------------- events
\* A key typed in the text box bound to AppState::new_todo.
TypeText ==
    /\ phase = "idle"
    /\ \E s \in Texts \ {new_todo} : new_todo' = s
    /\ phase' = "commands"
    /\ lastOp' = "type"
    /\ Delivered("type")
    /\ writes' = 0
    /\ UNCHANGED << todos, file, queue, old_data >>

\* A click on "Add": AppState::click_add.
ClickAdd ==
    /\ phase = "idle"
    /\ Len(todos) < MaxTodos
    /\ \E id \in NewV4(LiveIds) :
       \E io \in WriteOutcomes(Serialize(PushFront(todos,
                                            TodoItemNew(id, new_todo)))) :
         LET r == AddTodo(todos, new_todo, id, file, io)
         IN  IF r.save.res = "Err"
             THEN Panic(r.save.file) /\ writes' = 0
             ELSE /\ todos' = r.todos
                  /\ new_todo' = r.new_todo
                  /\ file' = r.save.file
                  /\ phase' = "commands"
                  /\ writes' = 1
                  /\ UNCHANGED << queue, old_data >>
    /\ lastOp' = "add"
    /\ Delivered("add")

\* A click on the checkbox of row i.
ClickCheckbox ==
    /\ phase = "idle"
    /\ \E i \in 1..Len(todos) : todos' = ToggleDone(todos, i)
    /\ phase' = "commands"
    /\ lastOp' = "toggle"
    /\ Delivered("toggle")
    /\ writes' = 0
    /\ UNCHANGED << new_todo, file, queue, old_data >>

\* A click on "Delete" of row i: TodoItem::click_delete.
ClickDelete ==
    /\ phase = "idle"
    /\ \E i \in 1..Len(todos) : queue' = Append(queue, DELETE(todos[i].id))
    /\ phase' = "commands"
    /\ lastOp' = "click_delete"
    /\ Delivered("click_delete")
    /\ writes' = 0
    /\ UNCHANGED << new_todo, todos, file, old_data >>

\* A click on "Clear completed": AppState::clear_completed.
ClickClearCompleted ==
    /\ phase = "idle"
    /\ \E io \in WriteOutcomes(Serialize(RetainNotDone(todos))) :
         LET r == ClearCompleted(todos, file, io)
         IN  IF r.save.res = "Err"
             THEN Panic(r.save.file) /\ writes' = 0
             ELSE /\ todos' = r.todos
                  /\ file' = r.save.file
                  /\ phase' = "commands"
                  /\ writes' = 1
                  /\ UNCHANGED << new_todo, queue, old_data >>
    /\ lastOp' = "clear"
    /\ Delivered("clear")

\* A command is submitted by something other than a click handled above.
Submit(cmds) ==
    /\ phase = "idle"
    /\ \E cmd \in cmds : queue' = Append(queue, cmd)
    /\ phase' = "commands"
    /\ lastOp' = "submit"
    /\ Delivered("submit")
    /\ writes' = 0
    /\ UNCHANGED << new_todo, todos, file, old_data >>

\* A command of the toolkit's own (close window, copy, paste, ...): the
\* delegate is handed every command, whatever its selector.
ExternalCommand == Submit({OtherCmd})

\* Delegate::command handed any command of its two selectors, whatever
\* submitted it: SAVE, or DELETE with any id, that of no item included.
AnyCommand == Submit({SAVE} \cup { DELETE(id) : id \in Ids })

\* The idle callback scheduled when an update pass left commands queued.
Idle ==
    /\ phase = "idle"
    /\ queue # <<>>
    /\ phase' = "commands"
    /\ lastOp' = "idle"
    /\ UNCHANGED << new_todo, todos, file, queue, old_data, handled,
                    lastEvent, clean, writes >>

\* --------------------------------------------------- commands and updates
\* The step a command is named by once the delegate has been handed it.
OpOf(cmd) ==
    IF cmd.sel = SAVE.sel THEN "save"
    ELSE IF cmd.sel = DELETE(0).sel THEN "delete"
    ELSE "forward"

\* The next queued command is handed to Delegate::command.
ProcessCommand ==
    /\ phase = "commands"
    /\ queue # <<>>
    /\ \E io \in IF OpOf(Head(queue)) = "save"
                  THEN WriteOutcomes(Serialize(todos))
                  ELSE IF OpOf(Head(queue)) = "delete"
                  THEN WriteOutcomes(Serialize(RetainOtherIds(todos,
                                                              Head(queue).id)))
                  ELSE {IoOk},
          out \in IF OpOf(Head(queue)) = "forward" THEN PrintOutcomes ELSE {"ok"} :
         LET r == DelegateCommand(Head(queue), todos, file, io, out)
         IN  IF r.res \in {"Err", "PrintErr"}
             THEN Panic(r.file) /\ handled' = r.handled /\ UNCHANGED writes
             ELSE /\ todos' = r.todos
                  /\ file' = r.file
                  /\ handled' = r.handled
                  /\ writes' = writes + (IF r.res = "Ok" THEN 1 ELSE 0)
                  /\ queue' = Tail(queue)
                  /\ UNCHANGED << new_todo, old_data, phase >>
    /\ lastOp' = OpOf(Head(queue))
    /\ UNCHANGED << lastEvent, clean >>

\* The update pass that follows the commands: the rows see the new data, and
\* the commands they submit wait for the next idle callback or event.
DoUpdate ==
    /\ phase = "commands"
    /\ queue = <<>>
    /\ queue' = ListUpdate(old_data, todos)
    /\ old_data' = todos
    /\ phase' = "idle"
    /\ lastOp' = "update"
    /\ handled' = "none"
    /\ UNCHANGED << new_todo, todos, file, lastEvent, clean, writes >>

Next ==
    \/ TypeText
    \/ ClickAdd
    \/ ClickCheckbox
    \/ ClickDelete
    \/ ClickClearCompleted
    \/ ExternalCommand
    \/ Idle
    \/ ProcessCommand
    \/ DoUpdate

Spec == Init /\ [][Next]_vars

\* The first run of the program: there is no todos.json yet.
FirstRunInit == Init /\ ~file.exists
FirstRunSpec == FirstRunInit /\ [][Next]_vars

\* The program with the delegate's inputs drawn from all the commands of its
\* selectors, and not only from those the rows submit.
DelegateNext == Next \/ AnyCommand
DelegateSpec == Init /\ [][DelegateNext]_vars

\* The toolkit runs the idle callback, handles every queued command and runs
\* the update pass; the user may stop clicking at any time.
FairSpec ==
    Spec /\ WF_vars(Idle) /\ WF_vars(ProcessCommand) /\ WF_vars(DoUpdate)

TypeOK ==
    /\ new_todo \in Texts
    /\ todos \in Seq(TodoItem)
    /\ old_data \in Seq(TodoItem)
    /\ phase \in {"idle", "commands", "panicked"}
    /\ handled \in {"none", "Yes", "No"}
    /\ clean \in BOOLEAN
    /\ writes \in Nat

\* ================================================================ claims
NoDuplicateIds(ts) ==
    \A i, j \in 1..Len(ts) : i # j => ts[i].id # ts[j].id

\* The list that loading todos.json now would give.
Persisted == LoadFromJson(file).todos

\* The steps that end with todos.json written.
WriteOps == {"add", "clear", "delete", "save"}

\* The next queued command is handed to the delegate in this step.
CommandDelivered ==
    /\ phase = "commands" /\ queue # <<>>
    /\ lastOp' = OpOf(Head(queue))

\* A step in which the delegate was handed the head of the queue and returned.
CommandHandled ==
    /\ phase = "commands" /\ phase' = "commands"
    /\ queue # <<>> /\ queue' = Tail(queue)

\* C1 as stated: in every reachable state, startup from any content of
\* todos.json included, no two items of todos have the same id.
C1_NoDuplicateIds == NoDuplicateIds(todos)

\* C1, amended: no add, toggle, delete or clear-completed introduces a
\* duplicate id: a list whose ids are pairwise distinct stays so.
C1_NoDuplicateIntroduced ==
    [][NoDuplicateIds(todos) => NoDuplicateIds(todos')]_vars

C1_Witness ==
    /\ lastOp = "add" /\ phase = "commands"
    /\ Len(todos) = 2 /\ NoDuplicateIds(todos)

\* C2: every toggle of a checkbox is followed by the handling of a SAVE
\* command after which todos.json holds the list in memory, the toggled flag
\* included, unless a write fails and the process panics.
C2_ToggleIsSaved ==
    (lastOp = "toggle") ~>
        (phase = "panicked" \/ (lastOp = "save" /\ Persisted = todos))

C2_Witness ==
    /\ lastEvent = "toggle" /\ clean /\ lastOp = "save"
    /\ writes = 1
    /\ Persisted = todos
    /\ \E i \in 1..Len(todos) : todos[i].done

\* C3 as stated: whenever the application waits for the next event, the
\* persisted list equals the list in memory.
C3_PersistedWhenIdle ==
    phase = "idle" => Persisted = todos

\* C3, amended: whenever the application waits for the next event and no
\* SAVE command is queued, the persisted list equals the list in memory (a
\* toggle is persisted only once its queued SAVE is handled).
C3_PersistedUnlessSaveQueued ==
    (phase = "idle" /\ \A i \in 1..Len(queue) : queue[i] # SAVE)
        => Persisted = todos

C3_Witness ==
    /\ phase = "idle" /\ queue = <<>>
    /\ lastEvent = "toggle" /\ clean /\ writes = 1
    /\ file = FileOf(Serialize(todos))
    /\ Len(todos) = 2
    /\ todos[1].done /\ ~todos[2].done

\* C4: one clear-completed, delivered with no command queued, causes exactly
\* one write of todos.json, the writes of the SAVE commands submitted by the
\* update pass that follows it included.
C4_ClearWritesOnce ==
    (lastEvent = "clear" /\ clean /\ phase # "panicked") => writes = 1

\* C5: clear-completed leaves, in memory and (when the write succeeds) in the
\* file, exactly the items whose flag was not set, unchanged and in their
\* order: N - M items; with no completed item the list is unchanged.
C5_ClearKeepsNotDone ==
    [][(phase = "idle" /\ lastOp' = "clear" /\ phase' # "panicked") =>
         /\ todos' = SelectSeq(todos, LAMBDA item : ~item.done)
         /\ Len(todos') =
              Len(todos) - Cardinality({ i \in 1..Len(todos) : todos[i].done })
         /\ ((\A i \in 1..Len(todos) : ~todos[i].done) => todos' = todos)
         /\ LoadFromJson(file').todos = todos'
         /\ file'.exists]_vars

C5_Witness ==
    /\ lastOp = "clear" /\ phase = "commands" /\ clean
    /\ Len(old_data) = 2 /\ old_data[1].done /\ ~old_data[2].done
    /\ todos = <<old_data[2]>>

\* C6: what a save has written loads back as the list in memory (same ids,
\* flags, texts and order) with an empty staging text.
C6_RoundTrip ==
    (lastOp \in WriteOps /\ phase # "panicked") =>
        LoadFromJson(file) = [todos |-> todos, new_todo |-> ""]

C6_Witness ==
    /\ lastOp = "save" /\ phase = "commands"
    /\ Len(todos) = 2
    /\ todos[1].done # todos[2].done
    /\ todos[1].text # todos[2].text
    /\ LoadFromJson(file).todos = todos

\* C7: handling SAVE changes neither todos nor the staging text, and when
\* the step before it wrote the file it leaves the file's content as it was.
C7_SaveIdempotent ==
    [][(CommandHandled /\ Head(queue) = SAVE) =>
         /\ todos' = todos
         /\ new_todo' = new_todo
         /\ (lastOp \in WriteOps => file' = file)]_vars

C7_Witness ==
    /\ lastOp = "save" /\ phase = "commands"
    /\ writes >= 2
    /\ todos # <<>>

\* Contents of todos.json that are no JSON array of todo items.
Malformed ==
    { b \in OddFiles : \/ b = <<>>
                       \/ Head(b) # LB
                       \/ b[Len(b)] # RB
                       \/ b[Len(b) - 1] \in {RB, COMMA}
                       \/ \E i \in 1..Len(b) : b[i] \in { Member("done", "yes"),
                                                         Member("id", "zz") }
                       \/ Cardinality({ i \in 1..Len(b) :
                                          /\ IsMember(b[i])
                                          /\ KeyOf(b[i]) = "done" }) # 1 }

\* C8: loading never fails: a missing file, or a file that is no JSON array
\* of todo items, gives an empty list and an empty staging text.
C8_LoadNeverFails ==
    lastOp = "load" =>
        /\ phase = "idle"
        /\ new_todo = ""
        /\ (~file.exists \/ ~Deserialize(file.bytes).ok
              \/ file.bytes \in Malformed) => todos = <<>>

C8_Witness ==
    /\ lastOp = "load"
    /\ file.exists /\ file.bytes \in Malformed /\ Len(file.bytes) > 1
    /\ todos = <<>> /\ new_todo = ""

\* No item of the list has the id of the command at the head of the queue.
IdAbsent == \A i \in 1..Len(todos) : todos[i].id # Head(queue).id

C10_DelegateDispatch ==
    [][CommandDelivered =>
         IF Head(queue).sel \in {SAVE.sel, DELETE(0).sel}
         THEN CommandHandled => handled' = "Yes"
         ELSE /\ CommandHandled
              /\ handled' = "No"
              /\ todos' = todos
              /\ new_todo' = new_todo
              /\ file' = file]_vars

\* A step of an operation that writes todos.json and returns.
WriteReturned ==
    /\ phase # "panicked" /\ phase' # "panicked"
    /\ lastOp' \in WriteOps

\* C11: an add that returns leaves todos = the new item followed by the old
\* list, the new item with the staging text, not done and an id no item of
\* the old list has; the staging text is empty and todos.json holds the new
\* list.
C11_AddPrepends ==
    [][(phase = "idle" /\ lastOp' = "add" /\ phase' # "panicked") =>
         /\ Len(todos') = Len(todos) + 1
         /\ Tail(todos') = todos
         /\ Head(todos').text = new_todo
         /\ Head(todos').done = FALSE
         /\ Head(todos').id \notin IdsOf(todos)
         /\ new_todo' = ""
         /\ file' = FileOf(Serialize(todos'))
         /\ LoadFromJson(file').todos = todos']_vars

C11_Witness ==
    /\ lastOp = "add" /\ phase = "commands" /\ clean
    /\ Len(todos) = 2 /\ Len(old_data) = 1
    /\ todos[2] = old_data[1] /\ old_data[1].done
    /\ todos[1].text = "a" /\ ~todos[1].done
    /\ new_todo = ""
    /\ LoadFromJson(file).todos = todos

\* C12: a failed write is fatal.  A step of add, clear-completed, delete or
\* SAVE either ends with the process panicked or with todos.json holding the
\* list (there is no return with the write failed), and nothing happens
\* after the panic.
C12_WriteFailureIsFatal ==
    [][/\ (phase = "panicked" => UNCHANGED vars)
       /\ ((phase # "panicked" /\ lastOp' \in WriteOps) =>
             \/ phase' = "panicked"
             \/ file' = FileOf(Serialize(todos')))]_vars

C12_Witness ==
    /\ phase = "panicked" /\ lastOp = "save" /\ lastEvent = "toggle"
    /\ file.exists /\ Len(file.bytes) > 2
    /\ file.bytes[Len(file.bytes)] = Torn

\* The id and text of the items of a list.
IdTexts(ts) == { <<ts[i].id, ts[i].text>> : i \in 1..Len(ts) }

\* C13: a toggle changes the flag of one item and nothing else of the list;
\* and no step changes the id or the text of an item: the items of the list
\* after a step have the id and text of items before it, but for the item an
\* add creates.
C13_ToggleOnlyDone ==
    [][/\ (lastOp' = "toggle" /\ phase = "idle") =>
             /\ Len(todos') = Len(todos)
             /\ \A i \in 1..Len(todos) :
                    /\ todos'[i].id = todos[i].id
                    /\ todos'[i].text = todos[i].text
             /\ Cardinality({ i \in 1..Len(todos) :
                                todos'[i].done # todos[i].done }) = 1
       /\ IdTexts(todos') \subseteq
            IdTexts(todos) \cup
              (IF lastOp' = "add" /\ todos' # <<>>
               THEN {<<Head(todos').id, Head(todos').text>>} ELSE {})]_vars

C13_Witness ==
    /\ lastOp = "toggle" /\ phase = "commands" /\ clean
    /\ Len(todos) = 2 /\ Len(old_data) = 2
    /\ todos[1] = old_data[1]
    /\ todos[2].done # old_data[2].done
    /\ todos[2].text = "a" /\ old_data[2].text = "a"
    /\ todos[2].id = old_data[2].id

\* C14: the staging text changes only when the user types and when an add
\* empties it (the memory of a panicked process is gone); and what a write
\* leaves in todos.json has the members id, done and text of the items and
\* nothing of the staging text.
C14_StagingTextFrame ==
    [][/\ (new_todo' # new_todo) =>
             \/ lastOp' = "type"
             \/ lastOp' = "add"
             \/ phase' = "panicked"
       /\ (lastOp' = "add" /\ phase' # "panicked") => new_todo' = ""
       /\ WriteReturned =>
             /\ \A i \in 1..Len(file'.bytes) :
                    \/ IsPunct(file'.bytes[i])
                    \/ /\ IsMember(file'.bytes[i])
                       /\ KeyOf(file'.bytes[i]) \in {"id", "done", "text"}
             /\ Cardinality({ i \in 1..Len(file'.bytes) :
                                /\ IsMember(file'.bytes[i])
                                /\ KeyOf(file'.bytes[i]) = "text" })
                  = Len(todos')
             /\ \A i \in 1..Len(file'.bytes) :
                    (IsMember(file'.bytes[i]) /\ KeyOf(file'.bytes[i]) = "text")
                      => \E j \in 1..Len(todos') :
                            todos'[j].text = ValueOf(file'.bytes[i])]_vars

C14_Witness ==
    /\ lastOp = "delete" /\ phase = "commands"
    /\ new_todo = "a"
    /\ todos # <<>> /\ \A i \in 1..Len(todos) : todos[i].text = ""
    /\ file = FileOf(Serialize(todos))

\* C15: loading does not write: todos.json changes only in a step of add,
\* delete, clear-completed or SAVE, and such a step that returns leaves in it
\* the whole list in memory.  Until then a file that did not load stays as
\* it was, with the list in memory empty.
C15_FileChangesOnlyOnWrite ==
    [][/\ (file' # file => (phase # "panicked" /\ lastOp' \in WriteOps))
       /\ WriteReturned => file' = FileOf(Serialize(todos'))]_vars

C15_Witness ==
    /\ lastOp = "update" /\ lastEvent = "type" /\ writes = 0
    /\ new_todo = "a"
    /\ file.exists /\ file.bytes \in Malformed /\ Len(file.bytes) > 1
    /\ todos = <<>>

====
